---- MODULE Spec2Model ----
(***************************************************************************)
(* Rolling-deployment coordinator of xNok/dides: the in-memory inventory   *)
(* store, the deployment store, the named locker, the rolling strategy     *)
(* and the trigger service.                                                *)
(***************************************************************************)
EXTENDS Integers, Sequences, FiniteSets, TLC

VARIABLES
    instances,     \* InventoryStore.instances: name -> Instance
    deployments,   \* DeploymentStore.deployments in insertion order (index = numeric id)
    locks,         \* InMemoryLocker.locks: the set of keys present in the map
    last,          \* the outcome of the latest call of a service operation
    calls,         \* concurrent TriggerDeployment calls, one per thread of control
    heap           \* the label maps callers and the inventory store point to, by address

vars == <<instances, deployments, locks, last, calls, heap>>

(***************************************************************************)
(* Bounds of the model.                                                    *)
(***************************************************************************)
MaxInstances == 2     \* instances that register
MaxDeployments == 3   \* records the deployment store holds
MaxTriggered == 2     \* records after which TriggerDeployment is no longer called
MaxCalls == 2         \* concurrent calls

Names == 1..MaxInstances
Procs == 1..MaxCalls

Nil == "nil"

\* inventory.Status
UNKNOWN == "UNKNOWN"
HEALTHY == "HEALTHY"
FAILED == "FAILED"

\* deployment.DeploymentStatus
Running == "Running"
Completed == "Completed"
Failed == "Failed"

lockKey == "deployment"

\* errors
ErrInvalidDeploymentRequest == "invalid deployment request"
ErrRolloutInProgress == "deployment rollout in progress"
ErrMoreThanOneInflightDeployment == "more than one inflight deployment found"
ErrFailureThresholdExceeded == "failure threshold exceeded"
ErrNoPreviousDeploymentFound == "no previous deployment found"
ErrNoInstancesMatch == "no instances match the specified labels"

(***************************************************************************)
(* Input domains.                                                          *)
(***************************************************************************)
NoLabels == [k \in {} |-> ""]
ProdLabels == [k \in {"env"} |-> "prod"]
DevLabels == [k \in {"env"} |-> "dev"]

InstanceLabels == {ProdLabels, DevLabels}
Selectors == {ProdLabels}

State(code, cfg) == [CodeVersion |-> code, ConfigurationVersion |-> cfg]
ZeroState == State("", "")

Config(b, f) == [BatchSize |-> b, FailureThreshold |-> f]

\* the configuration of the README and of the controller test
DefaultConfigurations == {Config(2, 1)}
BatchConfigurations == {Config(b, f) : b \in {1, 2}, f \in {1, 2}}

\* the zero values of batch_size and of failure_threshold
EdgeConfigurations == {Config(0, 1), Config(1, 0)}

Request(code, cfg, labels, config) ==
    [CodeVersion |-> code, ConfigurationVersion |-> cfg, Labels |-> labels,
     Configuration |-> config]

\* two versions under one configuration
VersionRequests ==
    {Request(c, "c1", l, k) : c \in {"v1", "v2"}, l \in Selectors, k \in DefaultConfigurations}

\* one version under every configuration
BatchRequests ==
    {Request("v1", "c1", l, k) : l \in Selectors, k \in BatchConfigurations}

\* one version under the zero-valued configurations
EdgeRequests ==
    {Request("v1", "c1", l, k) : l \in Selectors, k \in EdgeConfigurations}

Min(a, b) == IF a < b THEN a ELSE b

(***************************************************************************)
(* Inventory store.                                                        *)
(***************************************************************************)
matchesLabelsKeysOnly(instance, labels) ==
    \A key \in DOMAIN labels : key \in DOMAIN instance.Labels

matchesLabels(instance, labels) ==
    \A key \in DOMAIN labels :
        key \in DOMAIN instance.Labels /\ instance.Labels[key] = labels[key]

isCompleted(instance, desiredState) ==
    /\ instance.CurrentState.CodeVersion = desiredState.CodeVersion
    /\ instance.CurrentState.ConfigurationVersion = desiredState.ConfigurationVersion
    /\ instance.Status = HEALTHY

isFailed(instance, desiredState) ==
    /\ instance.DesiredState.CodeVersion = desiredState.CodeVersion
    /\ instance.DesiredState.ConfigurationVersion = desiredState.ConfigurationVersion
    /\ instance.Status = FAILED

isInProgress(instance, desiredState) ==
    LET hasDesiredState ==
            /\ instance.DesiredState.CodeVersion = desiredState.CodeVersion
            /\ instance.DesiredState.ConfigurationVersion = desiredState.ConfigurationVersion
        needsUpdate_ ==
            \/ instance.CurrentState.CodeVersion # desiredState.CodeVersion
            \/ instance.CurrentState.ConfigurationVersion # desiredState.ConfigurationVersion
    IN  hasDesiredState /\ needsUpdate_

needsUpdate(instance, desiredState) ==
    \/ instance.CurrentState.CodeVersion # desiredState.CodeVersion
    \/ instance.CurrentState.ConfigurationVersion # desiredState.ConfigurationVersion

\* the names an iteration over the instances map selects
Matching(inv, labels) == {n \in DOMAIN inv : matchesLabels(inv[n], labels)}

\* InventoryStore.GetByLabels: copies of the matching instances, in map order
GetByLabels(inv, labels) == {inv[n] : n \in Matching(inv, labels)}

CountByLabels(inv, labels) == Cardinality(Matching(inv, labels))

NeedingUpdate(inv, labels, desiredState) ==
    {n \in Matching(inv, labels) : needsUpdate(inv[n], desiredState)}

CountNeedingUpdate(inv, labels, desiredState) ==
    Cardinality(NeedingUpdate(inv, labels, desiredState))

CountCompleted(inv, labels, desiredState) ==
    Cardinality({n \in Matching(inv, labels) : isCompleted(inv[n], desiredState)})

CountFailed(inv, labels, desiredState) ==
    Cardinality({n \in Matching(inv, labels) : isFailed(inv[n], desiredState)})

CountInProgress(inv, labels, desiredState) ==
    Cardinality({n \in Matching(inv, labels) : isInProgress(inv[n], desiredState)})

\* The results GetNeedingUpdate can return: the map is iterated in an
\* unspecified order and the loop stops at maxResults matches; a limit that
\* is not positive leaves maxResults at -1, no limit.
GetNeedingUpdate(inv, labels, desiredState, limit) ==
    LET pool == NeedingUpdate(inv, labels, desiredState)
    IN  IF limit > 0
        THEN {S \in SUBSET pool : Cardinality(S) = Min(limit, Cardinality(pool))}
        ELSE {pool}

\* GetNeedingUpdate statement by statement.  opts is <<>> for a nil pointer
\* and <<options>> otherwise; a result is the sequence of the names of the
\* copies appended to matches.
maxResultsOf(opts) == IF opts # <<>> /\ opts[1].Limit > 0 THEN opts[1].Limit ELSE -1

\* the orders in which a range over the instances map can visit its keys
Orders(keys) ==
    {o \in [1..Cardinality(keys) -> keys] :
        \A a, b \in 1..Cardinality(keys) : o[a] = o[b] => a = b}

\* a limit that stops the loop one match late
limitReachedLate(matches, maxResults) == maxResults > 0 /\ Len(matches) > maxResults

limitReached(matches, maxResults) == maxResults > 0 /\ Len(matches) >= maxResults

RECURSIVE rangeInstances(_, _, _, _, _, _, _)
rangeInstances(inv, labels, desiredState, maxResults, order, k, matches) ==
    IF k > Len(order)
    THEN matches
    ELSE IF matchesLabels(inv[order[k]], labels) /\ needsUpdate(inv[order[k]], desiredState)
    THEN IF limitReached(Append(matches, order[k]), maxResults)
         THEN Append(matches, order[k])
         ELSE rangeInstances(inv, labels, desiredState, maxResults, order, k + 1,
                             Append(matches, order[k]))
    ELSE rangeInstances(inv, labels, desiredState, maxResults, order, k + 1, matches)

GetNeedingUpdateWith(inv, labels, desiredState, opts) ==
    {rangeInstances(inv, labels, desiredState, maxResultsOf(opts), order, 1, <<>>) :
        order \in Orders(DOMAIN inv)}

\* an update whose labels replace the stored labels
UpdateReplacingLabels(inv, key, patch) ==
    [inv EXCEPT ![key] =
        [f \in DOMAIN inv[key] |->
            IF f \in DOMAIN patch THEN patch[f] ELSE inv[key][f]]]

\* InventoryStore.Update: a sparse patch is a record that carries only the
\* fields that are present (non-nil) in the InstancePatch; every field the
\* stored instance has is copied, the patched ones are overwritten
Update(inv, key, patch) ==
    LET old == inv[key]
        has(f) == f \in DOMAIN patch
        merged == [k \in DOMAIN old.Labels \cup DOMAIN patch.Labels |->
                      IF k \in DOMAIN patch.Labels THEN patch.Labels[k] ELSE old.Labels[k]]
        updated == [f \in DOMAIN old |->
                       IF f = "Labels"
                       THEN IF has("Labels") THEN merged ELSE old.Labels
                       ELSE IF f \in {"LastPing", "Status", "CurrentState", "DesiredState"}
                               /\ has(f)
                       THEN patch[f]
                       ELSE old[f]]
    IN  [inv EXCEPT ![key] = updated]

\* a desired-state update that reports the instance healthy as well
UpdateDesiredStateHealthy(inv, instanceKey, state) ==
    Update(inv, instanceKey, [DesiredState |-> state, Status |-> HEALTHY])

\* StateService.UpdateDesiredState: a patch that carries desired_state only
UpdateDesiredState(inv, instanceKey, state) ==
    Update(inv, instanceKey, [DesiredState |-> state])

RECURSIVE UpdateDesiredStates(_, _, _)
UpdateDesiredStates(inv, keys, state) ==
    IF keys = {} THEN inv
    ELSE LET k == CHOOSE x \in keys : TRUE
         IN  UpdateDesiredStates(UpdateDesiredState(inv, k, state), keys \ {k}, state)

ResetFailedInstancesAll(inv, labels) ==
    [n \in DOMAIN inv |->
        IF inv[n].Status = FAILED THEN [inv[n] EXCEPT !.Status = UNKNOWN] ELSE inv[n]]

ResetFailedInstancesNone(inv, labels) == inv

ResetFailedInstances(inv, labels) ==
    [n \in DOMAIN inv |->
        IF matchesLabels(inv[n], labels) /\ inv[n].Status = FAILED
        THEN [inv[n] EXCEPT !.Status = UNKNOWN]
        ELSE inv[n]]

\* InventoryStore.Save as RegisterInstance uses it
SaveInstance(inv, name, labels) ==
    (name :> [Labels |-> labels, Status |-> UNKNOWN,
              CurrentState |-> ZeroState, DesiredState |-> ZeroState]) @@ inv

(***************************************************************************)
(* Deployment store.  A record id "deployment-%03d" is modelled by its     *)
(* number, which is also the record's position in insertion order.         *)
(***************************************************************************)
ZeroProgress ==
    [TotalMatchingInstances |-> 0, InProgressInstances |-> 0,
     CompletedInstances |-> 0, FailedInstances |-> 0]

\* a record that is built as already Completed
NewRecordCompleted(req) ==
    [ID |-> 0, Request |-> req, Status |-> Completed, Progress |-> ZeroProgress]

\* the record the trigger service builds from a request before Save
NewRecord(req) == [ID |-> 0, Request |-> req, Status |-> Running, Progress |-> ZeroProgress]

\* a counter that is never advanced
generateIDStuck(deps) == 1

generateID(deps) == Len(deps) + 1

\* DeploymentStore.Save: assigns the next id and inserts a copy
Save(deps, record) == Append(deps, [record EXCEPT !.ID = generateID(deps)])

\* DeploymentStore.Update: overwrites the stored copy by id
StoreUpdate(deps, record) == [deps EXCEPT ![record.ID] = record]

\* a query that returns the records of every status
GetByStatusAny(deps, status) == {deps[i] : i \in 1..Len(deps)}

\* DeploymentStore.GetByStatus: copies of the records with that status
GetByStatus(deps, status) == {deps[i] : i \in {j \in 1..Len(deps) : deps[j].Status = status}}

\* DeploymentStore.matchesLabels on request.labels
recordMatchesLabels(record, labels) ==
    \A key \in DOMAIN labels :
        key \in DOMAIN record.Request.Labels /\ record.Request.Labels[key] = labels[key]

GetByLabelsAndStatus(deps, labels, status) ==
    {r \in GetByStatus(deps, status) : recordMatchesLabels(r, labels)}

(***************************************************************************)
(* Rolling deployment strategy.  An outcome is what a call leaves behind:  *)
(* its error, the inventory, the deployment store and the caller's record. *)
(***************************************************************************)
Outcome(err, inv, deps, record) == [err |-> err, inv |-> inv, deps |-> deps, record |-> record]

desiredStateOf(record) ==
    State(record.Request.CodeVersion, record.Request.ConfigurationVersion)

\* a start without the early return for an empty result
StartDeploymentWithNoEarlyReturn(inv, deps, record, batch) ==
    LET totalInstances == CountByLabels(inv, record.Request.Labels)
        r1 == [record EXCEPT !.Progress.TotalMatchingInstances = totalInstances]
        started == [r1 EXCEPT !.Progress.InProgressInstances = @ + Cardinality(batch)]
    IN  IF totalInstances = 0
        THEN Outcome(ErrNoInstancesMatch, inv, deps, record)
        ELSE Outcome(Nil, UpdateDesiredStates(inv, batch, desiredStateOf(record)),
                     StoreUpdate(deps, started), started)

\* a start without the count of the matching instances
StartDeploymentWithNoCount(inv, deps, record, batch) ==
    LET totalInstances == CountByLabels(inv, record.Request.Labels)
        r1 == [record EXCEPT !.Progress.TotalMatchingInstances = totalInstances]
        done == [r1 EXCEPT !.Status = Completed,
                           !.Progress.CompletedInstances = totalInstances]
        started == [r1 EXCEPT !.Progress.InProgressInstances = @ + Cardinality(batch)]
    IN  IF batch = {}
        THEN Outcome(Nil, inv, StoreUpdate(deps, done), done)
        ELSE Outcome(Nil, UpdateDesiredStates(inv, batch, desiredStateOf(record)),
                     StoreUpdate(deps, started), started)

\* RollingDeployment.StartDeployment, for one result of GetNeedingUpdate
StartDeploymentWith(inv, deps, record, batch) ==
    LET totalInstances == CountByLabels(inv, record.Request.Labels)
        r1 == [record EXCEPT !.Progress.TotalMatchingInstances = totalInstances]
        done == [r1 EXCEPT !.Status = Completed,
                           !.Progress.CompletedInstances = totalInstances]
        started == [r1 EXCEPT !.Progress.InProgressInstances = @ + Cardinality(batch)]
    IN  IF totalInstances = 0
        THEN Outcome(ErrNoInstancesMatch, inv, deps, record)
        ELSE IF batch = {}
        THEN Outcome(Nil, inv, StoreUpdate(deps, done), done)
        ELSE Outcome(Nil, UpdateDesiredStates(inv, batch, desiredStateOf(record)),
                     StoreUpdate(deps, started), started)

StartDeployment(inv, deps, record) ==
    {StartDeploymentWith(inv, deps, record, batch) :
        batch \in GetNeedingUpdate(inv, record.Request.Labels, desiredStateOf(record),
                                   record.Request.Configuration.BatchSize)}

\* a refresh that does not write the completed count into the record
RefreshProgressNoCompleted(inv, record) ==
    [record EXCEPT
        !.Progress.FailedInstances =
            CountFailed(inv, record.Request.Labels, desiredStateOf(record)),
        !.Progress.InProgressInstances =
            CountInProgress(inv, record.Request.Labels, desiredStateOf(record))]

\* RollingDeployment.ProgressDeployment: the state refresh, then the state update
RefreshProgress(inv, record) ==
    [record EXCEPT
        !.Progress.FailedInstances =
            CountFailed(inv, record.Request.Labels, desiredStateOf(record)),
        !.Progress.CompletedInstances =
            CountCompleted(inv, record.Request.Labels, desiredStateOf(record)),
        !.Progress.InProgressInstances =
            CountInProgress(inv, record.Request.Labels, desiredStateOf(record))]

\* a threshold that is off when it is zero
thresholdExceededPositive(failed, record) ==
    /\ record.Request.Configuration.FailureThreshold > 0
    /\ failed >= record.Request.Configuration.FailureThreshold

\* a threshold that trips one failure late
thresholdExceededLate(failed, record) == failed > record.Request.Configuration.FailureThreshold

thresholdExceeded(failed, record) == failed >= record.Request.Configuration.FailureThreshold

\* a completion test that asks for more than every instance
allCompletedStrict(completed, record) == completed > record.Progress.TotalMatchingInstances

allCompleted(completed, record) == completed >= record.Progress.TotalMatchingInstances

batchFull(inProgress, record) == inProgress = record.Request.Configuration.BatchSize

nextBatchLimit(record) ==
    record.Request.Configuration.BatchSize - record.Progress.InProgressInstances

RollingProgressWith(inv, deps, record, batch) ==
    LET r1 == RefreshProgress(inv, record)
        failedRec == [r1 EXCEPT !.Status = Failed]
        doneRec == [r1 EXCEPT !.Status = Completed]
        nextRec == [r1 EXCEPT !.Progress.InProgressInstances = @ + Cardinality(batch)]
    IN  IF thresholdExceeded(r1.Progress.FailedInstances, r1)
        THEN Outcome(ErrFailureThresholdExceeded, inv, deps, failedRec)
        ELSE IF allCompleted(r1.Progress.CompletedInstances, r1)
        THEN Outcome(Nil, inv, StoreUpdate(deps, doneRec), doneRec)
        ELSE IF batchFull(r1.Progress.InProgressInstances, r1)
        THEN Outcome(Nil, inv, StoreUpdate(deps, r1), r1)
        ELSE Outcome(Nil, UpdateDesiredStates(inv, batch, desiredStateOf(record)),
                     StoreUpdate(deps, nextRec), nextRec)

RollingProgress(inv, deps, record) ==
    {RollingProgressWith(inv, deps, record, batch) :
        batch \in GetNeedingUpdate(inv, record.Request.Labels, desiredStateOf(record),
                                   nextBatchLimit(RefreshProgress(inv, record)))}

(***************************************************************************)
(* Named locker.  Lock stores the key and returns nil whether or not the  *)
(* key is already present; Unlock deletes the key.                         *)
(***************************************************************************)
Lock(held, key) == held \cup {key}

Unlock(held, key) == held \ {key}

(***************************************************************************)
(* Trigger service.  A result is what a call returns and leaves behind;    *)
(* ret is <<>> for a nil record and <<record>> otherwise.                  *)
(***************************************************************************)
Result(err, inv, deps, ret) == [err |-> err, inv |-> inv, deps |-> deps, ret |-> ret]

\* a validation that accepts every request
ValidateNone(req) == Nil

Validate(req) == IF req.CodeVersion = "" THEN ErrInvalidDeploymentRequest ELSE Nil

\* a check that never finds a rollout
isRolloutInProgressNever(deps) == FALSE

\* a check that counts the records of every status
isRolloutInProgressAny(deps) == Len(deps) > 0

\* a check that tolerates one Running record
isRolloutInProgressSecond(deps) == Cardinality(GetByStatus(deps, Running)) > 1

isRolloutInProgress(deps) == Cardinality(GetByStatus(deps, Running)) > 0

\* step 5 of TriggerDeployment and step 6 of TriggerRollback: the saved
\* record is handed to the strategy and its error is propagated
startSaved(inv, deps) ==
    {Result(o.err, o.inv, o.deps, <<>>) : o \in StartDeployment(inv, deps, deps[Len(deps)])}

TriggerDeploymentResults(inv, deps, req) ==
    IF Validate(req) # Nil
    THEN {Result(Validate(req), inv, deps, <<>>)}
    ELSE IF isRolloutInProgress(deps)
    THEN {Result(ErrRolloutInProgress, inv, deps, <<>>)}
    ELSE startSaved(inv, Save(deps, NewRecord(req)))

\* a rollback that leaves a Running record as it is
cancelRunningNone(deps) == deps

\* TriggerRollback step 2: a Running record is cancelled, Failed and persisted
cancelRunning(deps) ==
    [i \in 1..Len(deps) |->
        IF deps[i].Status = Running THEN [deps[i] EXCEPT !.Status = Failed] ELSE deps[i]]

\* TriggerRollback step 5: the most recent previous completed record
mostRecent(records) == CHOOSE r \in records : \A q \in records : q.ID <= r.ID

rollbackRequest(previous, labels, config) ==
    [CodeVersion |-> previous.Request.CodeVersion,
     ConfigurationVersion |-> previous.Request.ConfigurationVersion,
     Labels |-> labels, Configuration |-> config]

TriggerRollbackResults(inv, deps, labels, config) ==
    LET deps1 == cancelRunning(deps)
        inv1 == ResetFailedInstances(inv, labels)
        previous == GetByLabelsAndStatus(deps1, labels, Completed)
    IN  IF previous = {}
        THEN {Result(ErrNoPreviousDeploymentFound, inv1, deps1, <<>>)}
        ELSE startSaved(inv1,
                 Save(deps1, NewRecord(rollbackRequest(mostRecent(previous), labels, config))))

\* the contents of the deployment store after each write of a TriggerRollback
\* call, in the order of the writes: the cancellation, the Save, the start
TriggerRollbackStores(inv, deps, labels, config) ==
    LET deps1 == cancelRunning(deps)
        inv1 == ResetFailedInstances(inv, labels)
        previous == GetByLabelsAndStatus(deps1, labels, Completed)
        saved == Save(deps1, NewRecord(rollbackRequest(mostRecent(previous), labels, config)))
    IN  IF previous = {}
        THEN {<<deps1>>}
        ELSE {<<deps1, saved, r.deps>> : r \in startSaved(inv1, saved)}

\* ProgressDeployment step 4: the Failed record is persisted, the rollback
\* is executed and the failed record is returned without an error
autoRollback(o) ==
    {Result(Nil, r.inv, r.deps, <<o.record>>) :
        r \in TriggerRollbackResults(o.inv, StoreUpdate(o.deps, o.record),
                                     o.record.Request.Labels,
                                     o.record.Request.Configuration)}

\* a tick that hands every Running record to the strategy
ProgressDeploymentResultsAny(inv, deps) ==
    LET records == GetByStatus(deps, Running)
    IN  IF Cardinality(records) = 0
        THEN {Result(Nil, inv, deps, <<>>)}
        ELSE UNION {IF o.err = ErrFailureThresholdExceeded
                    THEN autoRollback(o)
                    ELSE {Result(o.err, o.inv, o.deps, <<o.record>>)} :
                        o \in UNION {RollingProgress(inv, deps, r) : r \in records}}

ProgressDeploymentResults(inv, deps) ==
    LET records == GetByStatus(deps, Running)
    IN  IF Cardinality(records) = 0
        THEN {Result(Nil, inv, deps, <<>>)}
        ELSE IF Cardinality(records) # 1
        THEN {Result(ErrMoreThanOneInflightDeployment, inv, deps, <<>>)}
        ELSE UNION {IF o.err = ErrFailureThresholdExceeded
                    THEN autoRollback(o)
                    ELSE {Result(o.err, o.inv, o.deps, <<o.record>>)} :
                        o \in UNION {RollingProgress(inv, deps, r) : r \in records}}

(***************************************************************************)
(* The operations of the trigger service as the calls they make on the     *)
(* locker, the store and the strategy, against collaborators that may      *)
(* fail.  f gives the error each collaborator returns, Nil for none.       *)
(***************************************************************************)
ErrLock == "failed to acquire lock"
ErrStore == "store error"
ErrStrategy == "strategy error"

Faults ==
    [lock : {Nil, ErrLock}, get : {Nil, ErrStore}, save : {Nil, ErrStore},
     update : {Nil, ErrStore}, strategy : {Nil, ErrStrategy, ErrFailureThresholdExceeded}]

NoFaults == [lock |-> Nil, get |-> Nil, save |-> Nil, update |-> Nil, strategy |-> Nil]

\* the error a call returns and the calls it made, in order
Trace(err, made) == [err |-> err, made |-> made]

\* an unlock that is never run
deferUnlockNone(t) == t

\* defer s.lock.Unlock(ctx, lockKey): runs once, when the function returns
deferUnlock(t) == [t EXCEPT !.made = Append(@, "Unlock")]

TriggerDeploymentCalls(req, deps, f) ==
    IF Validate(req) # Nil
    THEN Trace(Validate(req), <<>>)
    ELSE IF f.lock # Nil
    THEN Trace(f.lock, <<"Lock">>)
    ELSE deferUnlock(
             IF f.get = Nil /\ isRolloutInProgress(deps)
             THEN Trace(ErrRolloutInProgress, <<"Lock", "GetByStatus">>)
             ELSE IF f.save # Nil
             THEN Trace(f.save, <<"Lock", "GetByStatus", "Save">>)
             ELSE Trace(f.strategy, <<"Lock", "GetByStatus", "Save", "StartDeployment">>))

\* the body of a rollback after the lock is held: cancellation, reset,
\* lookup, Save and start
rollbackCalls(deps, labels, f, made) ==
    LET checked == made \o <<"GetByStatus">>
        cancelled == IF GetByStatus(deps, Running) # {}
                     THEN checked \o <<"GetByStatus", "Update">>
                     ELSE checked
        reset == cancelled \o <<"ResetFailedInstances">>
        looked == reset \o <<"GetByLabelsAndStatus">>
    IN  IF f.get # Nil
        THEN Trace(f.get, checked)
        ELSE IF GetByStatus(deps, Running) # {} /\ f.update # Nil
        THEN Trace(f.update, cancelled)
        ELSE IF GetByLabelsAndStatus(cancelRunning(deps), labels, Completed) = {}
        THEN Trace(ErrNoPreviousDeploymentFound, looked)
        ELSE IF f.save # Nil
        THEN Trace(f.save, looked \o <<"Save">>)
        ELSE Trace(IF f.strategy = ErrStrategy THEN ErrStrategy ELSE Nil,
                   looked \o <<"Save", "StartDeployment">>)

TriggerRollbackCalls(deps, labels, f) ==
    IF f.lock # Nil
    THEN Trace(f.lock, <<"Lock">>)
    ELSE deferUnlock(rollbackCalls(deps, labels, f, <<"Lock">>))

ProgressDeploymentCalls(deps, f) ==
    LET records == GetByStatus(deps, Running)
        fetched == <<"Lock", "GetByStatus">>
        ticked == fetched \o <<"ProgressDeployment">>
    IN  IF f.lock # Nil
        THEN Trace(f.lock, <<"Lock">>)
        ELSE deferUnlock(
                 IF f.get # Nil
                 THEN Trace(f.get, fetched)
                 ELSE IF Cardinality(records) = 0
                 THEN Trace(Nil, fetched)
                 ELSE IF Cardinality(records) # 1
                 THEN Trace(ErrMoreThanOneInflightDeployment, fetched)
                 ELSE IF f.strategy = ErrFailureThresholdExceeded
                 THEN Trace(Nil,
                            rollbackCalls([i \in 1..Len(deps) |->
                                              IF deps[i].Status = Running
                                              THEN [deps[i] EXCEPT !.Status = Failed]
                                              ELSE deps[i]],
                                          (CHOOSE r \in records : TRUE).Request.Labels,
                                          [f EXCEPT !.strategy = Nil],
                                          ticked \o <<"Update">>).made)
                 ELSE Trace(f.strategy, ticked))

(***************************************************************************)
(* Inputs of the operations.                                               *)
(***************************************************************************)
InvalidRequest == Request("", "c1", ProdLabels, Config(1, 1))

\* What an instance reports: HEALTHY together with the state it was asked
\* to run (status alone while nothing was asked of it), or, while it has not
\* reached the state asked of it, FAILED with or without that state.
Heartbeats(instance) ==
    {IF instance.DesiredState = ZeroState
     THEN [Status |-> HEALTHY]
     ELSE [Status |-> HEALTHY, CurrentState |-> instance.DesiredState]}
    \cup (IF instance.DesiredState # instance.CurrentState
          THEN {[Status |-> FAILED],
                [Status |-> FAILED, CurrentState |-> instance.DesiredState]}
          ELSE {})

Called(op, err, ret) ==
    [op |-> op, err |-> err, ret |-> IF ret = <<>> THEN 0 ELSE ret[1].ID]

(***************************************************************************)
(* The operations as atomic calls.                                         *)
(***************************************************************************)
\* a call of TriggerDeployment that has not begun
IdleCall == [pc |-> "idle", req |-> InvalidRequest, err |-> Nil, id |-> 0]

Init ==
    /\ instances = [n \in {} |-> 0]
    /\ deployments = <<>>
    /\ locks = {}
    /\ last = Called("none", Nil, <<>>)
    /\ calls = [p \in Procs |-> IdleCall]
    /\ heap = <<>>

\* RegistrationService.RegisterInstance of an instance that is not yet known
RegisterInstance(name, labels) ==
    /\ name \notin DOMAIN instances
    /\ instances' = SaveInstance(instances, name, labels)
    /\ last' = Called("RegisterInstance", Nil, <<>>)
    /\ UNCHANGED <<deployments, locks, calls, heap>>

\* UpdateService.UpdateInstance: a heartbeat patch
UpdateInstance(name, patch) ==
    /\ name \in DOMAIN instances
    /\ instances' = Update(instances, name, patch)
    /\ last' = Called("UpdateInstance", Nil, <<>>)
    /\ UNCHANGED <<deployments, locks, calls, heap>>

\* a call of the trigger service: Lock, the body, the deferred Unlock
Apply(op, r) ==
    /\ Len(r.deps) <= MaxDeployments
    /\ instances' = r.inv
    /\ deployments' = r.deps
    /\ locks' = Unlock(Lock(locks, lockKey), lockKey)
    /\ last' = Called(op, r.err, r.ret)
    /\ UNCHANGED <<calls, heap>>

TriggerDeploymentCall(req) ==
    \E r \in TriggerDeploymentResults(instances, deployments, req) :
        /\ Len(r.deps) <= MaxTriggered
        /\ Apply("TriggerDeployment", r)

TriggerDeploymentOf(requests) ==
    \E req \in requests \cup {InvalidRequest} : TriggerDeploymentCall(req)

ProgressDeployment ==
    \E r \in ProgressDeploymentResults(instances, deployments) :
        Apply("ProgressDeployment", r)

TriggerRollbackOf(configs) ==
    \E labels \in Selectors, config \in configs :
        \E r \in TriggerRollbackResults(instances, deployments, labels, config) :
            Apply("TriggerRollback", r)

Register == \E name \in Names, labels \in InstanceLabels : RegisterInstance(name, labels)

Heartbeat ==
    \E name \in DOMAIN instances :
        \E patch \in Heartbeats(instances[name]) : UpdateInstance(name, patch)

TriggerDeployment == TriggerDeploymentOf(VersionRequests)

TriggerRollback == TriggerRollbackOf(DefaultConfigurations)

Next ==
    \/ Register
    \/ Heartbeat
    \/ TriggerDeployment
    \/ ProgressDeployment
    \/ TriggerRollback

Spec == Init /\ [][Next]_vars

\* the same operations, one version under every configuration
TriggerBatchDeployment == TriggerDeploymentOf(BatchRequests)

TriggerBatchRollback == TriggerRollbackOf(BatchConfigurations)

NextBatch ==
    \/ Register
    \/ Heartbeat
    \/ TriggerBatchDeployment
    \/ ProgressDeployment
    \/ TriggerBatchRollback

SpecBatch == Init /\ [][NextBatch]_vars

\* the same operations, one version under the zero-valued configurations
TriggerEdgeDeployment == TriggerDeploymentOf(EdgeRequests)

TriggerEdgeRollback == TriggerRollbackOf(EdgeConfigurations)

NextEdge ==
    \/ Register
    \/ Heartbeat
    \/ TriggerEdgeDeployment
    \/ ProgressDeployment
    \/ TriggerEdgeRollback

SpecEdge == Init /\ [][NextEdge]_vars

(***************************************************************************)
(* InventoryStore.Update on instances that carry every field of Instance:  *)
(* two stored instances, one with labels {a:1, b:2} and one with nil        *)
(* labels, patched again and again.                                        *)
(***************************************************************************)
Restrict(r, fields) == [f \in fields |-> r[f]]

LabelsAB == [k \in {"a", "b"} |-> IF k = "a" THEN "1" ELSE "2"]

Instance(ip, name, labels) ==
    [IP |-> ip, Name |-> name, Labels |-> labels, LastPing |-> 0, Status |-> UNKNOWN,
     CurrentState |-> ZeroState, DesiredState |-> ZeroState]

\* the fields a patch carries: none, one, those of a heartbeat, or all
PatchFields ==
    {{}, {"Labels"}, {"LastPing"}, {"Status"}, {"CurrentState"}, {"DesiredState"},
     {"Labels", "LastPing", "Status"},
     {"Labels", "LastPing", "Status", "CurrentState", "DesiredState"}}

\* InstancePatch: each field is nil or carries a value
Patches ==
    {Restrict(p, fields) :
        p \in [Labels : {[k \in {"a"} |-> "9"], [k \in {"c"} |-> "3"]},
               LastPing : {1},
               Status : {HEALTHY},
               CurrentState : {State("v1", "c1")},
               DesiredState : {State("v1", "c1")}],
        fields \in PatchFields}

InitPatch ==
    /\ instances = (1 :> Instance("10.0.0.1", "web-1", LabelsAB))
                   @@ (2 :> Instance("10.0.0.2", "web-2", NoLabels))
    /\ deployments = <<>>
    /\ locks = {}
    /\ last = Called("none", Nil, <<>>)
    /\ calls = [p \in Procs |-> IdleCall]
    /\ heap = <<>>

PatchInstance(key, patch) ==
    /\ key \in DOMAIN instances
    /\ instances' = Update(instances, key, patch)
    /\ last' = Called("Update", Nil, <<>>)
    /\ UNCHANGED <<deployments, locks, calls, heap>>

Patch == \E key \in Names, patch \in Patches : PatchInstance(key, patch)

SpecPatch == InitPatch /\ [][Patch]_vars

(***************************************************************************)
(* TriggerDeployment statement by statement, one call per thread: the      *)
(* stores are safe for concurrent use, so each statement is one step.      *)
(***************************************************************************)
At(p, pc) == calls[p].pc = pc

Goto(p, pc) == calls' = [calls EXCEPT ![p].pc = pc]

\* Validate, before the lock is asked for
BeginTrigger(p, req) ==
    /\ At(p, "idle")
    /\ calls' = [calls EXCEPT ![p].req = req,
                              ![p].err = Validate(req),
                              ![p].pc = IF Validate(req) # Nil THEN "return" ELSE "lock"]
    /\ UNCHANGED <<instances, deployments, locks, last, heap>>

\* s.lock.Lock(ctx, lockKey): returns nil, the deferred Unlock is armed
AcquireLock(p) ==
    /\ At(p, "lock")
    /\ locks' = Lock(locks, lockKey)
    /\ Goto(p, "check")
    /\ UNCHANGED <<instances, deployments, last, heap>>

\* if s.isRolloutInProgress() { return ErrRolloutInProgress }
CheckRollout(p) ==
    /\ At(p, "check")
    /\ calls' = [calls EXCEPT
                    ![p].err = IF isRolloutInProgress(deployments)
                               THEN ErrRolloutInProgress ELSE Nil,
                    ![p].pc = IF isRolloutInProgress(deployments) THEN "unlock" ELSE "save"]
    /\ UNCHANGED <<instances, deployments, locks, last, heap>>

\* s.store.Save
SaveRecord(p) ==
    /\ At(p, "save")
    /\ deployments' = Save(deployments, NewRecord(calls[p].req))
    /\ calls' = [calls EXCEPT ![p].id = generateID(deployments), ![p].pc = "start"]
    /\ UNCHANGED <<instances, locks, last, heap>>

\* the saved record is handed to the strategy
StartSaved(p) ==
    /\ At(p, "start")
    /\ \E o \in StartDeployment(instances, deployments, deployments[calls[p].id]) :
        /\ instances' = o.inv
        /\ deployments' = o.deps
        /\ calls' = [calls EXCEPT ![p].err = o.err, ![p].pc = "unlock"]
    /\ UNCHANGED <<locks, last, heap>>

\* the deferred s.lock.Unlock(ctx, lockKey)
ReleaseLock(p) ==
    /\ At(p, "unlock")
    /\ locks' = Unlock(locks, lockKey)
    /\ Goto(p, "return")
    /\ UNCHANGED <<instances, deployments, last, heap>>

Return(p) ==
    /\ At(p, "return")
    /\ Goto(p, "done")
    /\ last' = Called("TriggerDeployment", calls[p].err, <<>>)
    /\ UNCHANGED <<instances, deployments, locks, heap>>

Begin == \E p \in Procs, req \in VersionRequests \cup {InvalidRequest} : BeginTrigger(p, req)

Acquire == \E p \in Procs : AcquireLock(p)

Check == \E p \in Procs : CheckRollout(p)

SaveStep == \E p \in Procs : SaveRecord(p)

StartStep == \E p \in Procs : StartSaved(p)

Release == \E p \in Procs : ReleaseLock(p)

Returns == \E p \in Procs : Return(p)

NextConc ==
    \/ Register
    \/ Begin
    \/ Acquire
    \/ Check
    \/ SaveStep
    \/ StartStep
    \/ Release
    \/ Returns

SpecConc == Init /\ [][NextConc]_vars

\* the statement-level triggers together with ProgressDeployment calls
NextTick ==
    \/ Register
    \/ Begin
    \/ Acquire
    \/ Check
    \/ SaveStep
    \/ StartStep
    \/ Release
    \/ Returns
    \/ ProgressDeployment

SpecTick == Init /\ [][NextTick]_vars

(***************************************************************************)
(* A rollout among instances that never fail: instances register while no  *)
(* record is Running, every instance keeps reporting HEALTHY with the state *)
(* it was asked to run, and ProgressDeployment is called again and again.   *)
(***************************************************************************)
LiveRequests ==
    {Request(c, "c1", l, Config(b, 1)) : c \in {"v1", "v2"}, l \in Selectors, b \in {1, 2}}

HealthyHeartbeats(instance) ==
    {IF instance.DesiredState = ZeroState
     THEN [Status |-> HEALTHY]
     ELSE [Status |-> HEALTHY, CurrentState |-> instance.DesiredState]}

HealthyHeartbeat(name) ==
    /\ name \in DOMAIN instances
    /\ \E patch \in HealthyHeartbeats(instances[name]) : UpdateInstance(name, patch)

RegisterBetween ==
    /\ \A i \in 1..Len(deployments) : deployments[i].Status # Running
    /\ Register

Healthy == \E name \in Names : HealthyHeartbeat(name)

TriggerLive == TriggerDeploymentOf(LiveRequests)

NextLive ==
    \/ RegisterBetween
    \/ Healthy
    \/ TriggerLive
    \/ ProgressDeployment

Fairness ==
    /\ WF_vars(ProgressDeployment)
    /\ \A name \in Names : WF_vars(HealthyHeartbeat(name))

SpecLive == Init /\ [][NextLive]_vars /\ Fairness

(***************************************************************************)
(* Properties.                                                             *)
(***************************************************************************)
RunningIds == {i \in 1..Len(deployments) : deployments[i].Status = Running}

CompletedIds == {i \in 1..Len(deployments) : deployments[i].Status = Completed}

FailedIds == {i \in 1..Len(deployments) : deployments[i].Status = Failed}

\* C1: in every state reached by a sequence of TriggerDeployment,
\* ProgressDeployment (with its automatic rollback) and TriggerRollback calls,
\* interleaved with registrations and heartbeats, at most one record is Running.
SingleFlight == Cardinality(RunningIds) <= 1

\* a tick has failed a record and its automatic rollback has started a new one
SingleFlightWitness ==
    /\ last.op = "ProgressDeployment"
    /\ last.ret \in FailedIds
    /\ \E i \in RunningIds : i > last.ret

\* C2: two concurrent TriggerDeployment calls with valid requests, no record
\* Running beforehand: exactly one call creates a record and every other call
\* returns ErrRolloutInProgress.
ConcurrentTriggersExclusive ==
    (\A p \in Procs : At(p, "done") /\ Validate(calls[p].req) = Nil)
        => /\ Cardinality({p \in Procs : calls[p].id # 0}) = 1
           /\ \A p \in Procs : calls[p].id = 0 => calls[p].err = ErrRolloutInProgress

\* a call is between the return of its Lock and its Unlock
Holds(p) == calls[p].pc \in {"check", "save", "start", "unlock"}

\* C3: after a Lock(key) has returned without error, no other Lock(key)
\* returns without error until Unlock(key) has been called.
LockMutualExclusion == \A p, q \in Procs : p # q => ~(Holds(p) /\ Holds(q))

\* C4: TriggerDeployment with a valid request while a record is Running
\* returns ErrRolloutInProgress, saves no record and leaves the records and
\* the instances unchanged.
RolloutInProgressRejected ==
    [][\A req \in VersionRequests :
          (RunningIds # {} /\ TriggerDeploymentCall(req))
              => /\ last'.err = ErrRolloutInProgress
                 /\ deployments' = deployments
                 /\ instances' = instances]_vars

\* a trigger was rejected while a batch is in progress
RolloutInProgressRejectedWitness ==
    /\ last.op = "TriggerDeployment"
    /\ last.err = ErrRolloutInProgress
    /\ \E i \in RunningIds : deployments[i].Progress.InProgressInstances > 0

\* the instances of a record's selector that were asked to run its target
\* and have not reported it
Batch(record) ==
    {n \in Matching(instances, record.Request.Labels) :
        /\ instances[n].DesiredState = desiredStateOf(record)
        /\ instances[n].CurrentState # desiredStateOf(record)}

\* C5: for a Running deployment with batch size B >= 1, at most B matching
\* instances have desired_state = T and current_state # T, also after earlier
\* deployments and rollbacks to the same T with another batch size.
BatchBound ==
    \A i \in RunningIds :
        deployments[i].Request.Configuration.BatchSize >= 1
            => Cardinality(Batch(deployments[i]))
                   <= deployments[i].Request.Configuration.BatchSize

\* the tick finds the failure threshold of record i reached
Trips(i) ==
    CountFailed(instances, deployments[i].Request.Labels, desiredStateOf(deployments[i]))
        >= deployments[i].Request.Configuration.FailureThreshold

\* the Completed records a rollback of record i can return to
PreviousOf(i) ==
    {c \in CompletedIds : recordMatchesLabels(deployments[c], deployments[i].Request.Labels)}

SameVersions(a, b) ==
    /\ a.Request.CodeVersion = b.Request.CodeVersion
    /\ a.Request.ConfigurationVersion = b.Request.ConfigurationVersion

\* C6: when ProgressDeployment runs on the single Running record and the
\* failure threshold is reached, afterwards that record is stored as Failed
\* and, if a Completed record matching its labels exists, exactly one new
\* record is Running, with the versions of that Completed record.
ThresholdTripRollsBack ==
    [][\A i \in RunningIds :
          (RunningIds = {i} /\ Trips(i) /\ last'.op = "ProgressDeployment")
              => /\ deployments'[i].Status = Failed
                 /\ PreviousOf(i) # {}
                        => /\ Len(deployments') = Len(deployments) + 1
                           /\ RunningIds' = {Len(deployments')}
                           /\ \E c \in PreviousOf(i) :
                                  SameVersions(deployments'[Len(deployments')],
                                               deployments[c])]_vars

\* C7: TriggerService.ProgressDeployment never returns
\* ErrFailureThresholdExceeded: when the threshold trips it returns the
\* Failed record with no error, also when the rollback finds no previous
\* Completed record.
ThresholdErrorNotSurfaced ==
    [][last'.op = "ProgressDeployment"
          => /\ last'.err # ErrFailureThresholdExceeded
             /\ \A i \in RunningIds :
                    (RunningIds = {i} /\ Trips(i))
                        => /\ last'.err = Nil
                           /\ last'.ret = i
                           /\ deployments'[i].Status = Failed]_vars

\* a tick returned the Failed record and its rollback found nothing to return to
ThresholdErrorNotSurfacedWitness ==
    /\ last.op = "ProgressDeployment"
    /\ last.err = Nil
    /\ last.ret \in FailedIds
    /\ CompletedIds = {}
    /\ RunningIds = {}

Done(i) ==
    /\ i \in CompletedIds
    /\ deployments[i].Progress.CompletedInstances
           = deployments[i].Progress.TotalMatchingInstances

\* C8: with B >= 1 and F >= 1, no instance ever FAILED, no registration
\* after the start, instances heartbeating HEALTHY at the state asked of them
\* and ProgressDeployment called again and again, a Running record eventually
\* is Completed with completed = total_matching.
EventuallyCompleted == \A i \in 1..MaxTriggered : (i \in RunningIds) ~> Done(i)

\* a rollout over every instance was completed by a tick
EventuallyCompletedWitness ==
    /\ last.op = "ProgressDeployment"
    /\ last.ret # 0
    /\ Done(last.ret)
    /\ deployments[last.ret].Progress.TotalMatchingInstances = MaxInstances

\* C9: for every record, in every reachable state,
\* completed + failed + in_progress <= total_matching.
ProgressWithinTotal ==
    \A i \in 1..Len(deployments) :
        deployments[i].Progress.CompletedInstances
            + deployments[i].Progress.FailedInstances
            + deployments[i].Progress.InProgressInstances
                <= deployments[i].Progress.TotalMatchingInstances

\* C10: once a record is Completed or Failed, no later TriggerDeployment,
\* ProgressDeployment or TriggerRollback changes its status, id, request or
\* progress; a rollback creates a new record.
TerminalRecordsFrozen ==
    [][\A i \in CompletedIds \cup FailedIds :
          /\ i <= Len(deployments')
          /\ deployments'[i] = deployments[i]]_vars

\* a rollback has started a new record beside a Failed and a Completed one
TerminalRecordsFrozenWitness ==
    /\ last.op = "TriggerRollback"
    /\ last.err = Nil
    /\ FailedIds # {}
    /\ CompletedIds # {}
    /\ RunningIds = {Len(deployments)}

\* C11: for a Running record, when ProgressDeployment is called twice in a
\* row with nothing in between, the record stored after the second call
\* (status and the four progress counters) equals the one stored after the
\* first call.
TickIdempotent ==
    [][\A i \in RunningIds :
          (last.op = "ProgressDeployment" /\ last.ret = i
               /\ last'.op = "ProgressDeployment")
              => /\ deployments'[i].Status = deployments[i].Status
                 /\ deployments'[i].Progress = deployments[i].Progress]_vars

\* the matching instances of record i
MatchingOf(i) == Matching(instances, deployments[i].Request.Labels)

UpToDate(n, i) == instances[n].CurrentState = desiredStateOf(deployments[i])

Asked(n, i) == instances[n].DesiredState = desiredStateOf(deployments[i])

\* the tick leaves record i Completed with completed = total_matching
CompletesNow(i) ==
    /\ deployments'[i].Status = Completed
    /\ deployments'[i].Progress.CompletedInstances
           = deployments'[i].Progress.TotalMatchingInstances

\* the instances that match record i are those counted when it was started
SameInstances(i) ==
    Cardinality(MatchingOf(i)) = deployments[i].Progress.TotalMatchingInstances

AfterCompletion ==
    /\ last.op = "ProgressDeployment"
    /\ last.ret \in CompletedIds
    /\ RunningIds = {}

\* C13 as stated: after the only Running record has reached Completed through
\* ProgressDeployment, a following TriggerDeployment with a valid request
\* whose selector matches at least one instance succeeds and creates a new
\* Running record.
TriggerAfterCompletionRuns ==
    [][\A req \in VersionRequests :
          (/\ AfterCompletion
           /\ CountByLabels(instances, req.Labels) > 0
           /\ TriggerDeploymentCall(req))
              => /\ last'.err = Nil
                 /\ Len(deployments') = Len(deployments) + 1
                 /\ deployments'[Len(deployments')].Request = req
                 /\ deployments'[Len(deployments')].Status = Running]_vars

\* C13 (amended): such a TriggerDeployment succeeds and saves a new record,
\* which is Running when some matching instance is not at the target and
\* Completed at once when every matching instance already is.
TriggerAfterCompletionSucceeds ==
    [][\A req \in VersionRequests :
          (/\ AfterCompletion
           /\ CountByLabels(instances, req.Labels) > 0
           /\ TriggerDeploymentCall(req))
              => /\ last'.err = Nil
                 /\ Len(deployments') = Len(deployments) + 1
                 /\ deployments'[Len(deployments')].Request = req
                 /\ deployments'[Len(deployments')].Status =
                        IF NeedingUpdate(instances, req.Labels,
                                         State(req.CodeVersion, req.ConfigurationVersion)) = {}
                        THEN Completed ELSE Running]_vars

\* a second rollout was started after the first one completed
TriggerAfterCompletionSucceedsWitness ==
    /\ last.op = "TriggerDeployment"
    /\ last.err = Nil
    /\ Len(deployments) = 2
    /\ deployments[1].Status = Completed
    /\ deployments[1].Progress.CompletedInstances > 0
    /\ deployments[2].Status = Running
    /\ deployments[2].Progress.InProgressInstances > 0

\* what StartDeployment does in this state with the record saved for req
StartOutcomes(req) ==
    StartDeployment(instances, Save(deployments, NewRecord(req)),
                    Save(deployments, NewRecord(req))[Len(deployments) + 1])

TargetOf(req) == State(req.CodeVersion, req.ConfigurationVersion)

\* matching instances with current_state # T and desired_state # T
NeverStarted(labels, target) ==
    {n \in Matching(instances, labels) :
        instances[n].CurrentState # target /\ instances[n].DesiredState # target}

\* the instances an outcome leaves different from what they are now
Changed(inv) == {n \in DOMAIN instances : inv[n] # instances[n]}

OnlyDesiredSet(inv, target) ==
    \A n \in Changed(inv) : inv[n] = [instances[n] EXCEPT !.DesiredState = target]

\* C14: StartDeployment on a record whose selector matches total > 0
\* instances, n > 0 of them never-started for T, with B >= 1, sets
\* desired_state = T on exactly min(B, n) instances, changes no other
\* instance, keeps the record Running and persists progress
\* {total, min(B, n), 0, 0}.
StartBatchExact ==
    RunningIds = {} =>
        \A req \in VersionRequests : \A o \in StartOutcomes(req) :
            LET total == CountByLabels(instances, req.Labels)
                n == Cardinality(NeverStarted(req.Labels, TargetOf(req)))
                b == Min(req.Configuration.BatchSize, n)
            IN  (total > 0 /\ n > 0 /\ req.Configuration.BatchSize >= 1)
                    => /\ o.err = Nil
                       /\ Cardinality(Changed(o.inv)) = b
                       /\ OnlyDesiredSet(o.inv, TargetOf(req))
                       /\ o.record.Status = Running
                       /\ o.record.Progress =
                              [TotalMatchingInstances |-> total, InProgressInstances |-> b,
                               CompletedInstances |-> 0, FailedInstances |-> 0]
                       /\ o.deps[o.record.ID] = o.record

\* what the strategy's tick does in this state with Running record i
TickOutcomes(i) == RollingProgress(instances, deployments, deployments[i])

\* C15: in a tick that trips neither the threshold nor completion, with k the
\* in-progress count read and k <= B, the tick sets desired_state = T on
\* exactly min(B - k, p) instances, p the number of never-started matching
\* instances, all of them never-started; with k = B it touches none; the
\* persisted in_progress is k plus the number of instances newly started.
RefillExact ==
    \A i \in RunningIds : \A o \in TickOutcomes(i) :
        LET r == deployments[i]
            target == desiredStateOf(r)
            k == CountInProgress(instances, r.Request.Labels, target)
            p == Cardinality(NeverStarted(r.Request.Labels, target))
            B == r.Request.Configuration.BatchSize
        IN  (/\ RunningIds = {i}
             /\ ~Trips(i)
             /\ CountCompleted(instances, r.Request.Labels, target)
                    < r.Progress.TotalMatchingInstances
             /\ k <= B)
                => /\ o.err = Nil
                   /\ Cardinality(Changed(o.inv)) = Min(B - k, p)
                   /\ Changed(o.inv) \subseteq NeverStarted(r.Request.Labels, target)
                   /\ OnlyDesiredSet(o.inv, target)
                   /\ o.record.Progress.InProgressInstances = k + Cardinality(Changed(o.inv))
                   /\ o.deps[i] = o.record

\* C16: StartDeployment on a record whose selector matches total > 0
\* instances none of which needs an update (every one has current_state = T)
\* sets status Completed with completed = total_matching = total, persists the
\* record and changes no instance.
StartNothingToUpdate ==
    RunningIds = {} =>
        \A req \in VersionRequests : \A o \in StartOutcomes(req) :
            LET total == CountByLabels(instances, req.Labels)
            IN  (total > 0 /\ NeedingUpdate(instances, req.Labels, TargetOf(req)) = {})
                    => /\ o.err = Nil
                       /\ o.inv = instances
                       /\ o.record.Status = Completed
                       /\ o.record.Progress.TotalMatchingInstances = total
                       /\ o.record.Progress.CompletedInstances = total
                       /\ o.deps[o.record.ID] = o.record

\* a trigger for the version every matching instance runs has returned
StartNothingToUpdateWitness ==
    /\ last.op = "TriggerDeployment"
    /\ last.err = Nil
    /\ deployments # <<>>
    /\ LET r == deployments[Len(deployments)]
       IN  /\ r.Status = Completed
           /\ r.Progress.TotalMatchingInstances > 0
           /\ r.Progress.CompletedInstances = r.Progress.TotalMatchingInstances
           /\ r.Progress.InProgressInstances = 0
           /\ NeedingUpdate(instances, r.Request.Labels, desiredStateOf(r)) = {}

\* C17: when no instance matches the request's labels, TriggerDeployment
\* returns "no instances match the specified labels", changes no instance and
\* leaves the record it saved in the store, Running with total_matching = 0,
\* so that a following TriggerDeployment returns ErrRolloutInProgress.
NoMatchLeavesRunningRecord ==
    (RunningIds = {} /\ Len(deployments) < MaxTriggered) =>
        \A req \in VersionRequests :
            CountByLabels(instances, req.Labels) = 0 =>
                \A r \in TriggerDeploymentResults(instances, deployments, req) :
                    /\ r.err = ErrNoInstancesMatch
                    /\ r.inv = instances
                    /\ Len(r.deps) = Len(deployments) + 1
                    /\ SubSeq(r.deps, 1, Len(deployments)) = deployments
                    /\ r.deps[Len(r.deps)].Status = Running
                    /\ r.deps[Len(r.deps)].Request = req
                    /\ r.deps[Len(r.deps)].Progress.TotalMatchingInstances = 0
                    /\ \A next \in VersionRequests :
                          \A q \in TriggerDeploymentResults(r.inv, r.deps, next) :
                              /\ q.err = ErrRolloutInProgress
                              /\ q.inv = r.inv
                              /\ q.deps = r.deps

\* a trigger that matched no instance has returned its error
NoMatchLeavesRunningRecordWitness ==
    /\ last.op = "TriggerDeployment"
    /\ last.err = ErrNoInstancesMatch
    /\ deployments # <<>>
    /\ deployments[Len(deployments)].Status = Running
    /\ deployments[Len(deployments)].Progress.TotalMatchingInstances = 0
    /\ CountByLabels(instances, deployments[Len(deployments)].Request.Labels) = 0

\* C18: with failure_threshold 0 a single failure trips the rollout: a
\* ProgressDeployment tick in which at least one matching instance has
\* desired_state = T and status FAILED sets the record to Failed.
ZeroThresholdTrips ==
    \A i \in RunningIds :
        (/\ RunningIds = {i}
         /\ deployments[i].Request.Configuration.FailureThreshold = 0
         /\ \E n \in MatchingOf(i) : /\ instances[n].DesiredState = desiredStateOf(deployments[i])
                                     /\ instances[n].Status = FAILED)
            => \A o \in TickOutcomes(i) :
                  /\ o.err = ErrFailureThresholdExceeded
                  /\ o.record.Status = Failed
                  /\ o.record.ID = i
                  /\ o.record.Progress.FailedInstances >= 1

\* a tick has failed a record of threshold 0 that counted a failure
ZeroThresholdTripsWitness ==
    /\ last.op = "ProgressDeployment"
    /\ last.ret \in FailedIds
    /\ deployments[last.ret].Request.Configuration.FailureThreshold = 0
    /\ deployments[last.ret].Progress.FailedInstances >= 1

\* C19: with batch_size 0 the deployment never advances: neither
\* StartDeployment nor a ProgressDeployment tick sets desired_state = T on
\* any instance.
ZeroBatchNeverAdvances ==
    /\ RunningIds = {} =>
          \A req \in EdgeRequests :
              req.Configuration.BatchSize = 0 =>
                  \A o \in StartOutcomes(req) : o.inv = instances
    /\ \A i \in RunningIds :
          (RunningIds = {i} /\ deployments[i].Request.Configuration.BatchSize = 0)
              => \A o \in TickOutcomes(i) : o.inv = instances

\* C20: GetNeedingUpdate(L, T, opts) and CountNeedingUpdate(L, T) select
\* exactly the instances matching L with current_state # T and
\* desired_state # T; an instance that is already in progress
\* (desired_state = T, current_state # T) is never returned or counted.
NeedingUpdateIsNeverStarted ==
    \A req \in VersionRequests :
        LET pool == NeverStarted(req.Labels, TargetOf(req))
        IN  /\ CountNeedingUpdate(instances, req.Labels, TargetOf(req)) = Cardinality(pool)
            /\ \A limit \in 0..MaxInstances :
                  \A batch \in GetNeedingUpdate(instances, req.Labels, TargetOf(req), limit) :
                      /\ batch \subseteq pool
                      /\ Cardinality(batch) =
                            IF limit = 0 THEN Cardinality(pool) ELSE Min(limit, Cardinality(pool))

\* the options a caller passes to GetNeedingUpdate
OptionInputs == {<<>>} \cup {<<[Limit |-> l]>> : l \in 0..(MaxInstances + 1)}

limitOf(opts) == IF opts = <<>> THEN 0 ELSE opts[1].Limit

Elements(seq) == {seq[k] : k \in 1..Len(seq)}

Distinct(seq) == \A a, b \in 1..Len(seq) : seq[a] = seq[b] => a = b

\* C21: GetNeedingUpdate returns min(limit, n) distinct instances when
\* limit > 0, n being the size of the qualifying pool, and all n instances
\* when opts is nil or limit = 0; every returned instance satisfies the
\* selection predicate (labels match and needsUpdate).
LimitedNeedingUpdate ==
    \A req \in VersionRequests : \A opts \in OptionInputs :
        LET pool == NeedingUpdate(instances, req.Labels, TargetOf(req))
            n == Cardinality(pool)
            results == GetNeedingUpdateWith(instances, req.Labels, TargetOf(req), opts)
        IN  /\ results # {}
            /\ \A matches \in results :
                  /\ Distinct(matches)
                  /\ Elements(matches) \subseteq pool
                  /\ Len(matches) = IF limitOf(opts) > 0 THEN Min(limitOf(opts), n) ELSE n
            /\ {Elements(matches) : matches \in results}
                  = GetNeedingUpdate(instances, req.Labels, TargetOf(req), limitOf(opts))

\* a start with batch_size 1 has taken one of two instances that needed the
\* update
LimitedNeedingUpdateWitness ==
    /\ last.op = "TriggerDeployment"
    /\ last.err = Nil
    /\ deployments # <<>>
    /\ LET r == deployments[Len(deployments)]
       IN  /\ r.Status = Running
           /\ r.Request.Configuration.BatchSize = 1
           /\ r.Progress.InProgressInstances = 1
           /\ Cardinality(NeedingUpdate(instances, r.Request.Labels, desiredStateOf(r))) = 2
           /\ Cardinality({n \in DOMAIN instances :
                              instances[n].DesiredState = desiredStateOf(r)}) = 1

\* the classification predicates that hold of an instance for a target
Classes(instance, target) ==
    (IF needsUpdate(instance, target) THEN {"needing update"} ELSE {})
    \cup (IF isInProgress(instance, target) THEN {"in progress"} ELSE {})
    \cup (IF isCompleted(instance, target) THEN {"completed"} ELSE {})
    \cup (IF isFailed(instance, target) THEN {"failed"} ELSE {})

\* C22: for every instance matching selector L and every target T exactly one
\* of the four classification predicates (needing update, in progress,
\* completed, failed) holds, the only exception being that needing update
\* and in progress both hold when desired_state = T and current_state # T.
ClassificationExclusive ==
    \A req \in VersionRequests : \A n \in Matching(instances, req.Labels) :
        \/ Cardinality(Classes(instances[n], TargetOf(req))) = 1
        \/ /\ Classes(instances[n], TargetOf(req)) = {"needing update", "in progress"}
           /\ instances[n].DesiredState = TargetOf(req)
           /\ instances[n].CurrentState # TargetOf(req)

RunningIn(deps) == {i \in 1..Len(deps) : deps[i].Status = Running}

\* C23: TriggerRollback called while a record is Running sets that record's
\* status to Failed and persists it before the rollback record is saved, so
\* that the cancelled record and the rollback record are never Running at the
\* same time.
CancelBeforeSave ==
    \A i \in RunningIds : \A labels \in Selectors, config \in DefaultConfigurations :
        RunningIds = {i} =>
            /\ \A w \in TriggerRollbackStores(instances, deployments, labels, config) :
                  /\ w[1] = StoreUpdate(deployments, [deployments[i] EXCEPT !.Status = Failed])
                  /\ \A k \in 1..Len(w) :
                        /\ w[k][i].Status = Failed
                        /\ Cardinality(RunningIn(w[k])) <= 1
                        /\ RunningIn(w[k]) \subseteq {Len(deployments) + 1}
            /\ {w[Len(w)] : w \in TriggerRollbackStores(instances, deployments, labels, config)}
                  = {r.deps : r \in TriggerRollbackResults(instances, deployments, labels, config)}

\* a rollback has cancelled the record that was Running and saved its own
CancelBeforeSaveWitness ==
    /\ last.op = "TriggerRollback"
    /\ last.err = Nil
    /\ Len(deployments) >= 2
    /\ LET cancelled == deployments[Len(deployments) - 1]
       IN  /\ cancelled.Status = Failed
           /\ cancelled.Progress.FailedInstances < cancelled.Request.Configuration.FailureThreshold
           /\ cancelled.Progress.CompletedInstances < cancelled.Progress.TotalMatchingInstances
    /\ deployments[Len(deployments)].Status = Running

\* the labels a caller passes to TriggerRollback
RollbackLabels == {ProdLabels, DevLabels}

\* C24: TriggerRollback with no Completed record matching the given labels
\* returns ErrNoPreviousDeploymentFound, saves no new record and does not call
\* StartDeployment (no desired_state and no progress is written).
NoPreviousNoRollback ==
    \A labels \in RollbackLabels, config \in DefaultConfigurations :
        (\A i \in CompletedIds : ~recordMatchesLabels(deployments[i], labels))
            => \A r \in TriggerRollbackResults(instances, deployments, labels, config) :
                  /\ r.err = ErrNoPreviousDeploymentFound
                  /\ r.ret = <<>>
                  /\ Len(r.deps) = Len(deployments)
                  /\ \A i \in 1..Len(deployments) :
                        r.deps[i] = IF i \in RunningIds
                                    THEN [deployments[i] EXCEPT !.Status = Failed]
                                    ELSE deployments[i]
                  /\ DOMAIN r.inv = DOMAIN instances
                  /\ \A n \in DOMAIN instances :
                        /\ r.inv[n].DesiredState = instances[n].DesiredState
                        /\ r.inv[n].CurrentState = instances[n].CurrentState

\* a rollback has found records, none of them Completed, and returned its error
NoPreviousNoRollbackWitness ==
    /\ last.op = "TriggerRollback"
    /\ last.err = ErrNoPreviousDeploymentFound
    /\ CompletedIds = {}
    /\ FailedIds # {}
    /\ RunningIds = {}

\* the selectors and configurations a caller passes to a rollback
RollbackSelectors == {ProdLabels, NoLabels}

\* the Completed records whose request labels match the labels
CompletedMatching(labels) ==
    {i \in CompletedIds : recordMatchesLabels(deployments[i], labels)}

LatestOf(ids) == CHOOSE i \in ids : \A j \in ids : j <= i

\* C25: a successful TriggerRollback saves exactly one new record with status
\* Running whose request carries the code_version and configuration_version
\* of the most recently created Completed record matching the labels,
\* together with the labels and configuration passed by the caller, and then
\* calls StartDeployment on that record.
RollbackToLatestCompleted ==
    \A labels \in RollbackSelectors, config \in BatchConfigurations :
        CompletedMatching(labels) # {} =>
            LET previous == deployments[LatestOf(CompletedMatching(labels))]
                id == Len(deployments) + 1
                new == [ID |-> id,
                        Request |-> Request(previous.Request.CodeVersion,
                                            previous.Request.ConfigurationVersion,
                                            labels, config),
                        Status |-> Running,
                        Progress |-> ZeroProgress]
                stores == TriggerRollbackStores(instances, deployments, labels, config)
                results == TriggerRollbackResults(instances, deployments, labels, config)
            IN  /\ stores # {}
                /\ \A w \in stores :
                      /\ Len(w) = 3
                      /\ w[2] = Append(w[1], new)
                      /\ Len(w[3]) = id
                /\ results =
                      {Result(o.err, o.inv, o.deps, <<>>) :
                          o \in UNION {StartDeployment(ResetFailedInstances(instances, labels),
                                                       w[2], w[2][id]) : w \in stores}}
                /\ \A r \in results : Len(r.deps) = id /\ r.deps[id].Request = new.Request

\* a rollback after two completed deployments of different versions has
\* saved a record for the version of the later one
RollbackToLatestCompletedWitness ==
    /\ last.op = "TriggerRollback"
    /\ last.err = Nil
    /\ Len(deployments) = 3
    /\ deployments[1].Status = Completed
    /\ deployments[2].Status = Completed
    /\ deployments[1].Request.CodeVersion # deployments[2].Request.CodeVersion
    /\ deployments[3].Request.CodeVersion = deployments[2].Request.CodeVersion
    /\ deployments[3].Status \in {Running, Completed}

Count(made, call) == Cardinality({k \in 1..Len(made) : made[k] = call})

\* the traces of the three operations in the current state under the faults f
OperationTraces(f) ==
    {TriggerDeploymentCalls(req, deployments, f) : req \in VersionRequests}
    \cup {TriggerRollbackCalls(deployments, labels, f) : labels \in Selectors}
    \cup {ProgressDeploymentCalls(deployments, f)}

InvalidRequests ==
    {Request("", cfg, l, k) : cfg \in {"", "c1"}, l \in Selectors, k \in DefaultConfigurations}

\* C27: TriggerDeployment with an empty code_version returns
\* ErrInvalidDeploymentRequest before acquiring the lock: no Lock call, no
\* store access, no strategy call, and the deployment store and the
\* inventory are unchanged.
InvalidRequestRejectedEarly ==
    \A req \in InvalidRequests :
        /\ \A f \in Faults :
              TriggerDeploymentCalls(req, deployments, f)
                  = Trace(ErrInvalidDeploymentRequest, <<>>)
        /\ TriggerDeploymentResults(instances, deployments, req)
              = {Result(ErrInvalidDeploymentRequest, instances, deployments, <<>>)}

\* a trigger with an empty code_version was refused while a record is
\* Running: the refusal is the validation's, not the rollout check's
InvalidRequestRejectedEarlyWitness ==
    /\ last.op = "TriggerDeployment"
    /\ last.err = ErrInvalidDeploymentRequest
    /\ RunningIds # {}
    /\ locks = {}

\* C28: TriggerService.ProgressDeployment calls the strategy only when
\* exactly one record is Running: with no Running record it returns
\* (nil, nil), with more than one it returns
\* ErrMoreThanOneInflightDeployment, and in both cases no record and no
\* instance is changed.
TickNeedsOneRunning ==
    /\ [](("ProgressDeployment" \in Elements(ProgressDeploymentCalls(deployments, NoFaults).made))
              <=> Cardinality(RunningIds) = 1)
    /\ [][(ProgressDeployment /\ Cardinality(RunningIds) # 1)
              => /\ deployments' = deployments
                 /\ instances' = instances
                 /\ last'.ret = 0
                 /\ last'.err = IF RunningIds = {} THEN Nil
                                ELSE ErrMoreThanOneInflightDeployment]_vars

\* a tick has found two Running records and returned its error
TickNeedsOneRunningWitness ==
    /\ last.op = "ProgressDeployment"
    /\ last.err = ErrMoreThanOneInflightDeployment
    /\ last.ret = 0
    /\ Cardinality(RunningIds) = 2

\* C29: a store error during TriggerDeployment, whether from
\* GetByStatus(Running) or from Save, is fatal to the operation:
\* TriggerDeployment returns an error and no new Running record is created
\* or started.
StoreErrorsFatal ==
    \A req \in VersionRequests : \A f \in Faults :
        (f.lock = Nil /\ (f.get # Nil \/ f.save # Nil)) =>
            LET t == TriggerDeploymentCalls(req, deployments, f)
            IN  /\ t.err # Nil
                /\ ~("Save" \in Elements(t.made) /\ f.save = Nil)
                /\ "StartDeployment" \notin Elements(t.made)

\* C30: InventoryStore.Update(key, patch) on an existing instance: the
\* resulting labels are the old labels overridden by the patch labels (keys
\* absent from the patch keep their values); each of last_ping, status,
\* current_state and desired_state takes the patch value when present and
\* keeps its old value when absent; ip, name and every other instance are
\* unchanged.
UpdateMergesPatch ==
    [][\A key \in DOMAIN instances : \A patch \in Patches :
          PatchInstance(key, patch) =>
              LET old == instances[key]
                  new == instances'[key]
                  patched == IF "Labels" \in DOMAIN patch THEN DOMAIN patch.Labels ELSE {}
              IN  /\ DOMAIN new.Labels = DOMAIN old.Labels \cup patched
                  /\ \A k \in DOMAIN new.Labels :
                        new.Labels[k] = IF k \in patched THEN patch.Labels[k]
                                        ELSE old.Labels[k]
                  /\ \A f \in {"LastPing", "Status", "CurrentState", "DesiredState"} :
                        new[f] = IF f \in DOMAIN patch THEN patch[f] ELSE old[f]
                  /\ new.IP = old.IP
                  /\ new.Name = old.Name
                  /\ DOMAIN new = DOMAIN old
                  /\ DOMAIN instances' = DOMAIN instances
                  /\ \A n \in DOMAIN instances \ {key} : instances'[n] = instances[n]]_vars

\* the instance with labels {a:1, b:2} was patched with labels {a:9}: a is
\* overridden, b is kept, and the fields no patch carried are as registered
UpdateMergesPatchWitness ==
    /\ last.op = "Update"
    /\ 1 \in DOMAIN instances
    /\ "IP" \in DOMAIN instances[1]
    /\ instances[1].Labels = [k \in {"a", "b"} |-> IF k = "a" THEN "9" ELSE "2"]
    /\ instances[1].IP = "10.0.0.1"
    /\ instances[1].Name = "web-1"
    /\ instances[1].Status = HEALTHY
    /\ instances[1].LastPing = 0
    /\ instances[2] = Instance("10.0.0.2", "web-2", NoLabels)

(***************************************************************************)
(* Label selection                                                         *)
(***************************************************************************)
\* the selectors asked of the patched inventory: none, one pair, two pairs,
\* a pair with another value, a key no instance carries
LabelSelectors ==
    {NoLabels,
     [k \in {"a"} |-> "1"], [k \in {"a"} |-> "9"], [k \in {"b"} |-> "2"],
     [k \in {"c"} |-> "3"], [k \in {"b"} |-> "3"], [k \in {"d"} |-> "1"],
     LabelsAB,
     [k \in {"a", "c"} |-> IF k = "a" THEN "9" ELSE "3"],
     [k \in {"a", "b"} |-> IF k = "a" THEN "9" ELSE "3"]}

\* a label map as its set of key/value pairs
Pairs(m) == {<<k, m[k]>> : k \in DOMAIN m}

\* C31: GetByLabels(L) returns exactly the stored instances whose label map
\* contains every pair of L, CountByLabels(L) is the number of those
\* instances, and the empty L selects every stored instance, the ones without
\* labels included.
LabelSelectionExact ==
    \A labels \in LabelSelectors :
        LET expected == {n \in DOMAIN instances :
                            Pairs(labels) \subseteq Pairs(instances[n].Labels)}
        IN  /\ GetByLabels(instances, labels) = {instances[n] : n \in expected}
            /\ CountByLabels(instances, labels) = Cardinality(expected)
            /\ labels = NoLabels => expected = DOMAIN instances

\* web-2 is stored without labels and web-1 carries {a:9, b:2}: the empty
\* selector returns both, {a:9} returns web-1 only, {a:1} returns nothing
LabelSelectionExactWitness ==
    /\ last.op = "Update"
    /\ DOMAIN instances = {1, 2}
    /\ "IP" \in DOMAIN instances[1]
    /\ instances[2].Labels = NoLabels
    /\ instances[1].Labels = [k \in {"a", "b"} |-> IF k = "a" THEN "9" ELSE "2"]
    /\ CountByLabels(instances, NoLabels) = 2
    /\ GetByLabels(instances, [k \in {"a"} |-> "9"]) = {instances[1]}
    /\ CountByLabels(instances, [k \in {"a"} |-> "1"]) = 0

(***************************************************************************)
(* ResetFailedInstances                                                    *)
(***************************************************************************)
ResetSelectors == {ProdLabels, DevLabels, NoLabels}

\* the instances ResetFailedInstances(labels) is to reset
FailedMatching(inv, labels) ==
    {n \in DOMAIN inv : Pairs(labels) \subseteq Pairs(inv[n].Labels) /\ inv[n].Status = FAILED}

\* C32: ResetFailedInstances(L) sets the status of exactly the FAILED
\* instances matching L to UNKNOWN, changes no other field and no other
\* instance, and a second call changes nothing.
ResetFailedExact ==
    \A labels \in ResetSelectors :
        LET reset == ResetFailedInstances(instances, labels)
        IN  /\ DOMAIN reset = DOMAIN instances
            /\ \A n \in DOMAIN instances :
                  IF n \in FailedMatching(instances, labels)
                  THEN /\ reset[n].Status = UNKNOWN
                       /\ DOMAIN reset[n] = DOMAIN instances[n]
                       /\ \A f \in DOMAIN instances[n] \ {"Status"} :
                             reset[n][f] = instances[n][f]
                  ELSE reset[n] = instances[n]
            /\ ResetFailedInstances(reset, labels) = reset

\* a FAILED prod instance next to a dev instance: the reset for {env:prod}
\* makes the first UNKNOWN and keeps its states, the reset for {env:dev}
\* leaves it FAILED, and the dev instance is as it was after both
ResetFailedExactWitness ==
    /\ DOMAIN instances = {1, 2}
    /\ instances[1].Labels = ProdLabels
    /\ instances[2].Labels = DevLabels
    /\ instances[1].Status = FAILED
    /\ instances[1].DesiredState # ZeroState
    /\ ResetFailedInstances(instances, ProdLabels)[1] = [instances[1] EXCEPT !.Status = UNKNOWN]
    /\ ResetFailedInstances(instances, ProdLabels)[2] = instances[2]
    /\ ResetFailedInstances(instances, DevLabels) = instances

(***************************************************************************)
(* The inventory store and a caller that keeps the instance it passed in   *)
(* or got back. Assigning an Instance struct copies its fields; the Labels *)
(* field is a Go map, a reference, so here an instance holds the address   *)
(* of its label map on the heap (NilMap for a nil map) and the copy holds  *)
(* the same address.                                                       *)
(***************************************************************************)
MaxMaps == 2          \* label maps allocated

NilMap == 0

\* `instanceCopy := *instance`
copyInstance(instance) == instance

\* the instance a caller builds, its label map at addr
NewInstanceAt(addr) ==
    [Labels |-> addr, Status |-> UNKNOWN, CurrentState |-> ZeroState,
     DesiredState |-> ZeroState]

\* what the store holds: every stored instance with its labels read through
StoredInstances(inv, h) ==
    [n \in DOMAIN inv |->
        [inv[n] EXCEPT !.Labels = IF inv[n].Labels = NilMap THEN NoLabels
                                  ELSE h[inv[n].Labels]]]

\* the Labels field of the instance a caller builds: nil, or a map
CallerMaps == {<<>>, <<[k \in {"a"} |-> "1"]>>}

\* the caller builds an instance, with a label map of its own or none, and
\* passes it to InventoryStore.Save, which overwrites by name
SaveCopy(name, labels) ==
    /\ Len(labels) > 0 => Len(heap) < MaxMaps
    /\ LET addr == IF Len(labels) = 0 THEN NilMap ELSE Len(heap) + 1
       IN  /\ heap' = IF Len(labels) = 0 THEN heap ELSE Append(heap, labels[1])
           /\ instances' = [n \in DOMAIN instances \cup {name} |->
                               IF n = name THEN copyInstance(NewInstanceAt(addr))
                               ELSE instances[n]]
           /\ last' = [op |-> "Save", err |-> Nil, ret |-> addr]
    /\ UNCHANGED <<deployments, locks, calls>>

ReadOps == {"Get", "GetAll", "GetByLabels", "GetNeedingUpdate"}

\* the names whose copies a read returns
ReturnedBy(op, key) ==
    LET stored == StoredInstances(instances, heap)
    IN  CASE op = "Get" -> {key} \cap DOMAIN instances
          [] op = "GetAll" -> DOMAIN instances
          [] op = "GetByLabels" -> Matching(stored, [k \in {"a"} |-> "1"])
          [] op = "GetNeedingUpdate" -> NeedingUpdate(stored, NoLabels, State("v1", "c1"))

\* Get, GetAll, GetByLabels, GetNeedingUpdate: the caller keeps one of the
\* copies returned
ReadCopy(op, key) ==
    /\ \E n \in ReturnedBy(op, key) :
          last' = [op |-> op, err |-> Nil, ret |-> copyInstance(instances[n]).Labels]
    /\ UNCHANGED <<instances, deployments, locks, calls, heap>>

LabelPatches == {[Labels |-> [k \in {"b"} |-> "1"]], [Status |-> HEALTHY]}

\* InventoryStore.Update: the labels of the patch are written into the map
\* of the copy, which is the stored map unless that one was nil
UpdateCopy(key, patch) ==
    /\ key \in DOMAIN instances
    /\ LET updated == copyInstance(instances[key])
           made == "Labels" \in DOMAIN patch /\ updated.Labels = NilMap
           addr == IF made THEN Len(heap) + 1 ELSE updated.Labels
           merged(old) == [k \in DOMAIN old \cup DOMAIN patch.Labels |->
                              IF k \in DOMAIN patch.Labels THEN patch.Labels[k] ELSE old[k]]
       IN  /\ made => Len(heap) < MaxMaps
           /\ heap' = IF "Labels" \notin DOMAIN patch THEN heap
                      ELSE IF made THEN Append(heap, merged(NoLabels))
                      ELSE [heap EXCEPT ![addr] = merged(heap[addr])]
           /\ instances' = [instances EXCEPT ![key] =
                               [updated EXCEPT !.Labels = addr,
                                               !.Status = IF "Status" \in DOMAIN patch
                                                          THEN patch.Status ELSE @]]
           /\ last' = [op |-> "Update", err |-> Nil, ret |-> addr]
    /\ UNCHANGED <<deployments, locks, calls>>

\* the caller writes a label into the map of the instance it holds
CallerWrite(k, v) ==
    /\ last.op \in {"Save", "Update", "CallerWrite"} \cup ReadOps
    /\ last.ret # NilMap
    /\ heap' = [heap EXCEPT ![last.ret] =
                   [x \in DOMAIN heap[last.ret] \cup {k} |->
                       IF x = k THEN v ELSE heap[last.ret][x]]]
    /\ last' = [op |-> "CallerWrite", err |-> last.op, ret |-> last.ret]
    /\ UNCHANGED <<instances, deployments, locks, calls>>

SaveCopies == \E name \in Names, labels \in CallerMaps : SaveCopy(name, labels)

ReadCopies == \E op \in ReadOps, key \in Names : ReadCopy(op, key)

UpdateCopies == \E key \in Names, patch \in LabelPatches : UpdateCopy(key, patch)

CallerWrites == \E k \in {"a", "c"}, v \in {"9"} : CallerWrite(k, v)

NextAlias ==
    \/ SaveCopies
    \/ ReadCopies
    \/ UpdateCopies
    \/ CallerWrites

SpecAlias == Init /\ [][NextAlias]_vars

\* C33: the inventory store shares no mutable state with its callers: when
\* a caller changes the instance, labels included, that it passed to Save or
\* that Get, GetAll, GetByLabels, GetNeedingUpdate or Update returned, what
\* the store holds stays as it was.
NoSharedState ==
    [][CallerWrites =>
          StoredInstances(instances', heap') = StoredInstances(instances, heap)]_vars

(***************************************************************************)
(* Completion                                                              *)
(***************************************************************************)
\* record i is Completed after the step and was not before it
BecomesCompleted(i) ==
    /\ deployments'[i].Status = Completed
    /\ i \in 1..Len(deployments) => deployments[i].Status # Completed

\* C34: whenever a record becomes Completed, in StartDeployment or in a
\* tick, every instance that matches its labels at that moment runs the
\* target state and is HEALTHY, the instances registered after the start
\* included.
CompletedMeansAllHealthy ==
    [][\A i \in 1..Len(deployments') :
          BecomesCompleted(i) =>
              \A n \in DOMAIN instances' :
                  Pairs(deployments'[i].Request.Labels) \subseteq Pairs(instances'[n].Labels) =>
                      /\ instances'[n].CurrentState = desiredStateOf(deployments'[i])
                      /\ instances'[n].Status = HEALTHY]_vars

(***************************************************************************)
(* Failure                                                                 *)
(***************************************************************************)
\* the matching instances that were given T and report FAILED
FailedOn(i) ==
    {n \in DOMAIN instances :
        /\ Pairs(deployments[i].Request.Labels) \subseteq Pairs(instances[n].Labels)
        /\ instances[n].DesiredState = desiredStateOf(deployments[i])
        /\ instances[n].Status = FAILED}

\* C35: a ProgressDeployment tick sets a record to Failed only if at least
\* one matching instance has desired_state = T and status FAILED; with
\* failure_threshold 0 a rollout without a failure is not aborted.
FailedOnlyOnFailure ==
    \A i \in RunningIds :
        \A o \in TickOutcomes(i) :
            o.record.Status = Failed => FailedOn(i) # {}

(***************************************************************************)
(* The tick after a rollback                                               *)
(***************************************************************************)
\* a step in which a rollback, asked for or automatic, has saved and started
\* its record
RolledBack ==
    /\ Len(deployments') = Len(deployments) + 1
    /\ \/ last'.op = "TriggerRollback" /\ last'.err = Nil
       \/ last'.op = "ProgressDeployment"

\* C36: right after a successful TriggerRollback, manual or automatic, no
\* instance matching the rollback labels is FAILED, so a tick on the rollback
\* record before any heartbeat, with failure_threshold >= 1, does not trip
\* the threshold.
RollbackStartsClean ==
    [][RolledBack =>
          LET record == deployments'[Len(deployments')]
          IN  /\ \A n \in DOMAIN instances' :
                    Pairs(record.Request.Labels) \subseteq Pairs(instances'[n].Labels)
                        => instances'[n].Status # FAILED
              /\ (record.Status = Running /\ record.Request.Configuration.FailureThreshold >= 1)
                    => \A o \in RollingProgress(instances', deployments', record) :
                          /\ o.err # ErrFailureThresholdExceeded
                          /\ o.record.Status # Failed]_vars

\* a rollback has just started its record, with a threshold of at least 1,
\* over an instance that had reported and is UNKNOWN again
RollbackStartsCleanWitness ==
    /\ last.op = "TriggerRollback"
    /\ last.err = Nil
    /\ deployments # <<>>
    /\ deployments[Len(deployments)].Status = Running
    /\ deployments[Len(deployments)].Request.Configuration.FailureThreshold >= 1
    /\ \E n \in MatchingOf(Len(deployments)) :
          /\ instances[n].Status = UNKNOWN
          /\ instances[n].CurrentState # ZeroState
          /\ instances[n].CurrentState # desiredStateOf(deployments[Len(deployments)])

(***************************************************************************)
(* InventoryStore.Update called from two threads: thread 1 sends heartbeat *)
(* patches through UpdateService.UpdateInstance, thread 2 sets desired     *)
(* states through StateService.UpdateDesiredState. Update holds the        *)
(* store's mutex from its first statement to its return.                   *)
(***************************************************************************)
ZeroInstance == Instance("", "", NoLabels)

\* a thread that is not inside a call of Update
IdleUpdate ==
    [pc |-> "idle", key |-> 0, patch |-> NoLabels, updated |-> ZeroInstance,
     concurrent |-> FALSE]

\* UpdateInstance stamps the patch of the request with the time of the call
HeartbeatPatches ==
    [LastPing : {1}, Status : {HEALTHY, FAILED},
     CurrentState : {State("v1", "c1"), State("v2", "c1")}]

DesiredStatePatches == [DesiredState : {State("v1", "c1"), State("v2", "c1")}]

InitRace ==
    /\ instances = [n \in Names |-> Instance("10.0.0.1", "web", ProdLabels)]
    /\ deployments = <<>>
    /\ locks = {}
    /\ last = Called("none", Nil, <<>>)
    /\ calls = [p \in Procs |-> IdleUpdate]
    /\ heap = <<>>

\* p is between the Lock and the deferred Unlock of the store's mutex
InUpdate(p) == calls[p].pc = "copied"

\* a mutex that lets every thread in
muFreeAlways(p) == TRUE

\* s.mu.Lock() returns only while no other thread holds the mutex
muFree(p) == \A q \in Procs \ {p} : ~InUpdate(q)

\* the call is made: the patch is built and handed to InventoryStore.Update
BeginUpdate(p, key, patch) ==
    /\ calls[p].pc \in {"idle", "done"}
    /\ calls' = [calls EXCEPT ![p] =
                    [pc |-> "lock", key |-> key, patch |-> patch, updated |-> ZeroInstance,
                     concurrent |-> \E q \in Procs \ {p} : calls[q].pc \in {"lock", "copied"}]]
    /\ UNCHANGED <<instances, deployments, locks, last, heap>>

\* UpdateService.UpdateInstance
BeginUpdateInstance(p, key, patch) == BeginUpdate(p, key, patch)

\* StateService.UpdateDesiredState
BeginUpdateDesiredState(p, key, patch) == BeginUpdate(p, key, patch)

\* s.mu.Lock(); instance := s.instances[key]; updated := *instance
LockAndCopy(p) ==
    /\ calls[p].pc = "lock"
    /\ muFree(p)
    /\ calls[p].key \in DOMAIN instances
    /\ calls' = [calls EXCEPT ![p].pc = "copied", ![p].updated = instances[calls[p].key]]
    /\ UNCHANGED <<instances, deployments, locks, last, heap>>

\* the patch is applied to the copy, the copy is stored, the mutex released
StoreUpdated(p) ==
    /\ calls[p].pc = "copied"
    /\ LET key == calls[p].key
       IN  instances' = [instances EXCEPT ![key] =
                            Update([instances EXCEPT ![key] = calls[p].updated],
                                   key, calls[p].patch)[key]]
    /\ calls' = [calls EXCEPT ![p].pc = "done", ![p].updated = ZeroInstance]
    /\ last' = Called("Update", Nil, <<>>)
    /\ UNCHANGED <<deployments, locks, heap>>

HeartbeatCall == \E key \in Names, patch \in HeartbeatPatches : BeginUpdateInstance(1, key, patch)

DesiredStateCall ==
    \E key \in Names, patch \in DesiredStatePatches : BeginUpdateDesiredState(2, key, patch)

EnterUpdate == \E p \in Procs : LockAndCopy(p)

LeaveUpdate == \E p \in Procs : StoreUpdated(p)

NextRace ==
    \/ HeartbeatCall
    \/ DesiredStateCall
    \/ EnterUpdate
    \/ LeaveUpdate

SpecRace == InitRace /\ [][NextRace]_vars

\* C37: a heartbeat patch, which carries status and current_state, and an
\* UpdateDesiredState patch on the same instance, executed concurrently, both
\* take effect whatever the order: once a call has returned, the fields of
\* its patch are in the stored instance, also after the other thread's call.
NoLostUpdate ==
    \A p \in Procs :
        calls[p].pc = "done" =>
            \A f \in DOMAIN calls[p].patch :
                instances[calls[p].key][f] = calls[p].patch[f]

\* both calls were in flight together on instance 1 and both have returned:
\* the instance carries the status and current state of the heartbeat and
\* the desired state of the other call
NoLostUpdateWitness ==
    /\ calls[1].pc = "done"
    /\ calls[2].pc = "done"
    /\ calls[1].key = 1
    /\ calls[2].key = 1
    /\ calls[1].concurrent \/ calls[2].concurrent
    /\ instances[1].Status = FAILED
    /\ instances[1].CurrentState = State("v2", "c1")
    /\ instances[1].DesiredState = State("v1", "c1")
    /\ instances[1].LastPing = 1

(***************************************************************************)
(* TriggerService.ProgressDeployment statement by statement, called by one *)
(* thread while no other operation runs: the Lock, the tick of the         *)
(* strategy, and on a trip the rollback, which locks and unlocks the same  *)
(* key itself, then the deferred Unlock and the return.                    *)
(***************************************************************************)
Ticker == 1

\* no call is in flight
Quiet == \A p \in Procs : At(p, "idle")

\* s.lock.Lock(ctx, lockKey); the deferred Unlock is armed
TickLock(p) ==
    /\ At(p, "idle")
    /\ Len(deployments) < MaxDeployments
    /\ locks' = Lock(locks, lockKey)
    /\ calls' = [calls EXCEPT ![p].pc = "tick", ![p].err = Nil, ![p].id = 0]
    /\ UNCHANGED <<instances, deployments, last, heap>>

\* GetByStatus(Running) and the strategy's ProgressDeployment; on
\* ErrFailureThresholdExceeded the Failed record is persisted
TickStrategy(p) ==
    /\ At(p, "tick")
    /\ LET records == GetByStatus(deployments, Running)
       IN  IF Cardinality(records) # 1
           THEN /\ calls' = [calls EXCEPT
                                ![p].pc = "unlock",
                                ![p].err = IF Cardinality(records) = 0 THEN Nil
                                           ELSE ErrMoreThanOneInflightDeployment]
                /\ UNCHANGED <<instances, deployments>>
           ELSE \E r \in records : \E o \in RollingProgress(instances, deployments, r) :
                    /\ instances' = o.inv
                    /\ IF o.err = ErrFailureThresholdExceeded
                       THEN /\ deployments' = StoreUpdate(o.deps, o.record)
                            /\ calls' = [calls EXCEPT ![p].pc = "rollback", ![p].id = r.ID]
                       ELSE /\ deployments' = o.deps
                            /\ calls' = [calls EXCEPT ![p].pc = "unlock", ![p].err = o.err,
                                                      ![p].id = r.ID]
    /\ UNCHANGED <<locks, last, heap>>

\* TriggerRollback step 1, inside the tick: Lock, the deferred Unlock armed
RollbackLock(p) ==
    /\ At(p, "rollback")
    /\ locks' = Lock(locks, lockKey)
    /\ Goto(p, "rollback body")
    /\ UNCHANGED <<instances, deployments, last, heap>>

\* TriggerRollback steps 2 to 6 for the labels and configuration of the
\* failed record
RollbackBody(p) ==
    /\ At(p, "rollback body")
    /\ \E r \in TriggerRollbackResults(instances, deployments,
                                       deployments[calls[p].id].Request.Labels,
                                       deployments[calls[p].id].Request.Configuration) :
          /\ instances' = r.inv
          /\ deployments' = r.deps
    /\ Goto(p, "rollback unlock")
    /\ UNCHANGED <<locks, last, heap>>

\* the deferred Unlock of TriggerRollback
RollbackUnlock(p) ==
    /\ At(p, "rollback unlock")
    /\ locks' = Unlock(locks, lockKey)
    /\ Goto(p, "unlock")
    /\ UNCHANGED <<instances, deployments, last, heap>>

\* the deferred Unlock of ProgressDeployment
TickUnlock(p) ==
    /\ At(p, "unlock")
    /\ locks' = Unlock(locks, lockKey)
    /\ Goto(p, "return")
    /\ UNCHANGED <<instances, deployments, last, heap>>

TickReturn(p) ==
    /\ At(p, "return")
    /\ Goto(p, "idle")
    /\ last' = [op |-> "ProgressDeployment", err |-> calls[p].err, ret |-> calls[p].id]
    /\ UNCHANGED <<instances, deployments, locks, heap>>

\* the next statement of the call of p
TickStep(p) ==
    \/ TickStrategy(p)
    \/ RollbackLock(p)
    \/ RollbackBody(p)
    \/ RollbackUnlock(p)
    \/ TickUnlock(p)
    \/ TickReturn(p)

RegisterQuiet == Quiet /\ Register

HeartbeatQuiet == Quiet /\ Heartbeat

TriggerQuiet == Quiet /\ TriggerDeployment

NextNested ==
    \/ RegisterQuiet
    \/ HeartbeatQuiet
    \/ TriggerQuiet
    \/ TickLock(Ticker)
    \/ TickStrategy(Ticker)
    \/ RollbackLock(Ticker)
    \/ RollbackBody(Ticker)
    \/ RollbackUnlock(Ticker)
    \/ TickUnlock(Ticker)
    \/ TickReturn(Ticker)

SpecNested == Init /\ [][NextNested]_vars

\* the call of p has taken the lock and has not reached its deferred Unlock
BeforeUnlock(p) ==
    calls[p].pc \in {"tick", "rollback", "rollback body", "rollback unlock", "unlock"}

\* C38: every call of TriggerService.ProgressDeployment returns, also when
\* the threshold trips and the rollback, which takes the "deployment" lock
\* itself, runs while the call holds that lock: no statement of the call
\* blocks, the lock is held from the call's Lock until its own Unlock, and
\* it is free once the call has returned.
TickHoldsLockUntilReturn ==
    \A p \in {Ticker} :
        /\ ~At(p, "idle") => ENABLED TickStep(p)
        /\ BeforeUnlock(p) => lockKey \in locks
        /\ At(p, "idle") => lockKey \notin locks

(***************************************************************************)
(* What the strategy writes                                                *)
(***************************************************************************)
\* the outcome keeps the instances, their status, current state and labels,
\* and a desired state it changed is the target
InstancesFramed(o, target) ==
    /\ DOMAIN o.inv = DOMAIN instances
    /\ \A n \in DOMAIN instances :
          /\ o.inv[n].Status = instances[n].Status
          /\ o.inv[n].CurrentState = instances[n].CurrentState
          /\ o.inv[n].Labels = instances[n].Labels
          /\ DOMAIN o.inv[n] = DOMAIN instances[n]
          /\ o.inv[n].DesiredState \in {instances[n].DesiredState, target}

\* the outcome keeps the id and the request of the record it was given, in
\* the record it returns and in the store, and every other record
RecordFramed(o, before, record) ==
    /\ o.record.ID = record.ID
    /\ o.record.Request = record.Request
    /\ Len(o.deps) = Len(before)
    /\ o.deps[record.ID].ID = record.ID
    /\ o.deps[record.ID].Request = record.Request
    /\ \A j \in 1..Len(before) : j # record.ID => o.deps[j] = before[j]

\* C39: the rolling strategy changes only what it owns: StartDeployment and
\* ProgressDeployment never change a record's id or request,
\* ProgressDeployment never changes total_matching, and neither changes an
\* instance's status, current_state or labels; the only instance field they
\* write is desired_state, and only to the record's target.
StrategyFrame ==
    /\ \A req \in VersionRequests :
          LET saved == Save(deployments, NewRecord(req))
          IN  \A o \in StartOutcomes(req) :
                  /\ InstancesFramed(o, TargetOf(req))
                  /\ RecordFramed(o, saved, saved[Len(saved)])
    /\ \A i \in RunningIds :
          \A o \in TickOutcomes(i) :
              /\ InstancesFramed(o, desiredStateOf(deployments[i]))
              /\ RecordFramed(o, deployments, deployments[i])
              /\ o.record.Progress.TotalMatchingInstances
                    = deployments[i].Progress.TotalMatchingInstances
              /\ o.deps[i].Progress.TotalMatchingInstances
                    = deployments[i].Progress.TotalMatchingInstances

\* a tick has run and the next one hands the target to an instance that
\* has reported a status, next to an instance it leaves alone
StrategyFrameWitness ==
    /\ last.op = "ProgressDeployment"
    /\ \E i \in RunningIds : \E o \in TickOutcomes(i) :
          /\ \E n \in Changed(o.inv) :
                /\ instances[n].Status # UNKNOWN
                /\ o.inv[n].DesiredState = desiredStateOf(deployments[i])
                /\ instances[n].DesiredState # desiredStateOf(deployments[i])
          /\ \E m \in DOMAIN instances : m \notin Changed(o.inv)

====
